---- MODULE Spec2Model ----
(***************************************************************************)
(* The Updater of pkg/updater/update.go: UpdateYAML fetches a file, patches *)
(* one key (syaml.SetBytes), resolves the head of the source branch,        *)
(* optionally creates a branch, commits the file and optionally opens a     *)
(* pull request.  Several callers run UpdateYAML on one shared Updater      *)
(* against one remote repository; the hosting client is the environment.    *)
(***************************************************************************)
EXTENDS Integers, Sequences, FiniteSets, TLC

\* ------------------------------------------------------------------ bounds
\* UpdateYAML invocations in all, over all callers.
MaxCalls == 2

\* The goroutines that call UpdateYAML on the shared Updater.
Callers == {"g1", "g2"}

\* ------------------------------------------------------------------ values
\* Values of the fixtures of the tests.
testGitHubRepo == "testorg/testrepo"
testFilePath == "environments/test/services/service-a/test.yaml"
testBranch == "main"

SourceBranches == {testBranch}
\* Input.BranchGenerateName: "" is the Reuse mode.
GenerateNames == {"", "ma"}
\* The suffixes a name generator appends; "ma" \o "in" is the name of the
\* source branch "main", "ma" \o "a" is a fresh name.
Suffixes == {"in", "a"}
\* Input.Key: the empty path is the one sjson rejects.
Keys == {"", "test.image"}
Values == {"old-image", "test/my-test-image"}

\* A YAML document, as far as SetBytes can tell documents apart: either it does
\* not parse, or it holds a value under the key and is (or is not) in the form
\* JSONToYAML writes (no comments, keys in order).
Malformed == [parses |-> FALSE, value |-> "", canonical |-> FALSE]
Docs == {Malformed} \cup [parses : {TRUE}, value : Values, canonical : BOOLEAN]

\* What other parties write to the file: a document that does not parse, or a
\* hand-written one (comments, own layout) that holds the new value already.
ExternalDocs == {Malformed,
                 [parses |-> TRUE, value |-> "test/my-test-image", canonical |-> FALSE]}

\* The file of the tests: "test:\n  image: old-image\n".
InitialDoc == [parses |-> TRUE, value |-> "old-image", canonical |-> FALSE]

NoBranch == [parses |-> FALSE, value |-> "no such branch", canonical |-> FALSE]

Inputs ==
    [Repo : {testGitHubRepo}, Filename : {testFilePath}, Key : Keys,
     NewValue : {"test/my-test-image"}, Branch : SourceBranches,
     BranchGenerateName : GenerateNames,
     CommitMessage : {"just a test commit"},
     PullRequest : [Title : {"test pull-request"}, Body : {"test pull-request body"}]]

NoInput == [Repo |-> "", Filename |-> "", Key |-> "", NewValue |-> "", Branch |-> "",
            BranchGenerateName |-> "", CommitMessage |-> "",
            PullRequest |-> [Title |-> "", Body |-> ""]]

\* ------------------------------------------------------------------ errors
\* A Go error value: id is its identity (errors.New allocates), msg its
\* Error() text, cause what errors.Unwrap returns.
NilErr == [id |-> "nil", msg |-> ""]
NewError(id, msg) == [id |-> id, msg |-> msg]

GetFileErr == NewError("GetFileErr", "missing file")
GetBranchHeadErr == NewError("GetBranchHeadErr", "no such ref")
CreateBranchErr == NewError("CreateBranchErr", "can't create branch")
UpdateFileErr == NewError("UpdateFileErr", "can't update file")
CreatePullRequestErr == NewError("CreatePullRequestErr", "can't create pull-request")
BranchExistsErr == NewError("BranchExistsErr", "reference already exists")
StaleShaErr == NewError("StaleShaErr", "sha does not match")
CanceledErr == NewError("Canceled", "context canceled")
YAMLErr == NewError("YAMLErr", "error converting YAML to JSON")
PathErr == NewError("PathErr", "path cannot be empty")

\* fmt.Errorf(prefix + ": %w", err): a new error that wraps err.
ErrorfW(prefix, err) ==
    [id |-> "wrapError", msg |-> prefix \o ": " \o err.msg, cause |-> err]

\* fmt.Errorf(prefix + ": %v", err): a new error that only quotes err.
ErrorfV(prefix, err) ==
    [id |-> "errorString", msg |-> prefix \o ": " \o err.msg]

\* errors.Unwrap.
Unwrap(err) == IF "cause" \in DOMAIN err THEN err.cause ELSE NilErr

\* --------------------------------------------------------------- syaml
\* yaml.YAMLToJSON: fails on a document that does not parse; the JSON keeps
\* the value and drops the layout.
YAMLToJSON(y) ==
    IF y.parses THEN [err |-> NilErr, json |-> [value |-> y.value]]
    ELSE [err |-> YAMLErr, json |-> [value |-> ""]]

\* sjson.SetBytes: fails on the empty path, else sets the value at the path.
SjsonSetBytes_Appends(j, path, value) ==
    IF path = "" THEN [err |-> PathErr, json |-> j]
    ELSE [err |-> NilErr, json |-> [value |-> j.value \o value]]
SjsonSetBytes(j, path, value) ==
    IF path = "" THEN [err |-> PathErr, json |-> j]
    ELSE [err |-> NilErr, json |-> [value |-> value]]

\* yaml.JSONToYAML: writes the canonical layout.
JSONToYAML(j) == [parses |-> TRUE, value |-> j.value, canonical |-> TRUE]

SetBytes(y, path, value) ==
    LET j == YAMLToJSON(y) IN
    IF j.err # NilErr THEN [err |-> j.err, data |-> Malformed]
    ELSE LET updated == SjsonSetBytes(j.json, path, value) IN
         IF updated.err # NilErr THEN [err |-> updated.err, data |-> Malformed]
         ELSE [err |-> NilErr, data |-> JSONToYAML(updated.json)]

\* ------------------------------------------------------- name generators
\* The generator the Updater holds: the stub of the tests appends a fixed
\* name; the default one (names.New(timeSeed)) appends a random suffix.
Generators == [kind : {"stub"}, name : Suffixes] \cup {[kind |-> "random", name |-> ""]}

\* The names PrefixedName(p) may return.
PrefixedNames(gen, p) ==
    IF gen.kind = "stub" THEN {p \o gen.name} ELSE {p \o s : s \in Suffixes}

BranchNames == SourceBranches \cup {p \o s : p \in GenerateNames \ {""}, s \in Suffixes}

\* ------------------------------------------------------------ the state
VARIABLES
    nameGenerator,  \* Updater.nameGenerator
    rejectsExisting,\* the hosting service refuses to create a branch that exists
    remote,         \* the repository: branch name -> the file on it, or NoBranch
    pullRequests,   \* the pull requests of the repository, in creation order
    pc,             \* per caller: where it is in UpdateYAML
    calls,          \* number of invocations started so far
    input,          \* per caller: the Input it invokes UpdateYAML with
    canceled,       \* per caller: ctx of the current invocation is cancelled
    current,        \* per caller: local current (Data, Sha)
    updated,        \* per caller: local updated
    branchRef,      \* per caller: local branchRef
    newBranchName,  \* per caller: local newBranchName
    log,            \* per caller: collaborator calls of the current invocation
    ret,            \* per caller: what the current invocation returned
    prev,           \* per caller: whether its previous invocation succeeded
    superseded,     \* per caller: the file version it fetched has been replaced
    peers,          \* per caller: the callers that fetched the same file version
    timeSeed        \* the package-level random source: the values drawn from it

vars == <<nameGenerator, rejectsExisting, remote, pullRequests,
          pc, calls, input, canceled, current, updated, branchRef,
          newBranchName, log, ret, prev, superseded, peers, timeSeed>>

remoteVars == <<remote, pullRequests>>
updaterVars == <<nameGenerator, rejectsExisting>>
localVars == <<current, updated, branchRef, newBranchName>>

\* The blob SHA of a file: a hash of its content.
BlobSha(doc) == [sha |-> doc]
\* The commit a branch points to, as far as this file is concerned.
HeadRef(doc) == [commit |-> doc]

NoFile == [Data |-> Malformed, Sha |-> BlobSha(NoBranch)]
NoRef == HeadRef(NoBranch)
NoPR == [Number |-> 0, Title |-> "", Body |-> "", Head |-> "", Base |-> ""]
NoReturn == [pr |-> NoPR, err |-> NilErr]
NoPrev == [ran |-> FALSE, succeeded |-> FALSE]

Init ==
    /\ nameGenerator \in Generators
    /\ rejectsExisting \in BOOLEAN
    /\ remote = [b \in BranchNames |-> IF b \in SourceBranches THEN InitialDoc ELSE NoBranch]
    /\ pullRequests = <<>>
    /\ pc = [g \in Callers |-> "idle"]
    /\ calls = 0
    /\ input = [g \in Callers |-> NoInput]
    /\ canceled = [g \in Callers |-> FALSE]
    /\ current = [g \in Callers |-> NoFile]
    /\ updated = [g \in Callers |-> Malformed]
    /\ branchRef = [g \in Callers |-> NoRef]
    /\ newBranchName = [g \in Callers |-> ""]
    /\ log = [g \in Callers |-> <<>>]
    /\ ret = [g \in Callers |-> NoReturn]
    /\ prev = [g \in Callers |-> NoPrev]
    /\ superseded = [g \in Callers |-> FALSE]
    /\ peers = [g \in Callers |-> {}]
    /\ timeSeed = 0

\* ------------------------------------------------- the hosting client
\* What a call of the client returns.  fault is the failure the service may
\* report at any call (the GetFileErr, CreateBranchErr, ... of the mock); a
\* call made with a cancelled context fails and changes nothing.
ClientGetFile(g, fault) ==
    IF canceled[g] THEN CanceledErr
    ELSE IF fault \/ remote[input[g].Branch] = NoBranch THEN GetFileErr
    ELSE NilErr

ClientGetBranchHead(g, fault) ==
    IF canceled[g] THEN CanceledErr
    ELSE IF fault \/ remote[input[g].Branch] = NoBranch THEN GetBranchHeadErr
    ELSE NilErr

ClientCreateBranch(g, name, fault) ==
    IF canceled[g] THEN CanceledErr
    ELSE IF fault THEN CreateBranchErr
    ELSE IF rejectsExisting /\ remote[name] # NoBranch THEN BranchExistsErr
    ELSE NilErr

\* The update is refused when the sha given is not the sha of the file on
\* the branch.
ClientUpdateFile(g, branch, sha, fault) ==
    IF canceled[g] THEN CanceledErr
    ELSE IF fault \/ remote[branch] = NoBranch THEN UpdateFileErr
    ELSE IF BlobSha(remote[branch]) # sha THEN StaleShaErr
    ELSE NilErr

ClientCreatePullRequest(g, fault) ==
    IF canceled[g] THEN CanceledErr
    ELSE IF fault THEN CreatePullRequestErr
    ELSE NilErr

\* The random source after PrefixedName: the generator of the tests leaves it
\* alone; the default one, names.New(timeSeed), draws from it.  The source is
\* not synchronised: while another invocation is at its own PrefixedName the
\* two draws race, and one of them may be lost.
SeedAfterPrefixedName(g) ==
    IF nameGenerator.kind # "random" THEN {timeSeed}
    ELSE IF \E h \in Callers \ {g} : pc[h] = "CreateBranch"
         THEN {timeSeed, timeSeed + 1}
         ELSE {timeSeed + 1}

\* ------------------------------------------------------------ UpdateYAML
\* One collaborator call, as the log keeps it.
Entry(op, args, err, result) == [op |-> op, args |-> args, err |-> err, result |-> result]

Logged(g, entries) == [log EXCEPT ![g] = @ \o entries]

\* The callers, other than g, that hold a fetched version of the file of
\* branch b see it replaced when b is written.
Supersedes(g, b) ==
    [h \in Callers |->
        IF h # g /\ pc[h] \in {"GetBranchHead", "CreateBranch", "UpdateFile"}
                 /\ input[h].Branch = b
        THEN TRUE ELSE superseded[h]]

\* The callers that hold the version of the file g fetches now, the current
\* one of g's source branch, count g among those that fetched their version.
FetchedWith(g) ==
    LET same == {h \in Callers \ {g} :
                    /\ pc[h] \in {"GetBranchHead", "CreateBranch", "UpdateFile"}
                    /\ input[h].Branch = input[g].Branch
                    /\ ~superseded[h]}
    IN  [h \in Callers |->
            IF h = g THEN same
            ELSE IF h \in same THEN peers[h] \cup {g}
            ELSE peers[h]]

\* return pr, err
Returns(g, pr, err) ==
    /\ pc' = [pc EXCEPT ![g] = "returned"]
    /\ ret' = [ret EXCEPT ![g] = [pr |-> pr, err |-> err]]
    /\ current' = [current EXCEPT ![g] = NoFile]
    /\ updated' = [updated EXCEPT ![g] = Malformed]
    /\ branchRef' = [branchRef EXCEPT ![g] = NoRef]
    /\ newBranchName' = [newBranchName EXCEPT ![g] = ""]

\* The error UpdateYAML returns when GetFile fails.
GetFileFailure_Wrapped(err) == ErrorfW("failed to get file", err)
GetFileFailure(err) == err
\* The error UpdateYAML returns when SetBytes fails.
SetBytesFailure_Wrapped(err) == ErrorfW("failed to update YAML", err)
SetBytesFailure(err) == err
\* The errors it returns when the other calls fail.
GetBranchHeadFailure_Reworded(err) == ErrorfV("failed to get the branch head", err)
GetBranchHeadFailure(err) == ErrorfV("failed to get branch head", err)
CreateBranchFailure_Reworded(err) == ErrorfW("failed to create a branch", err)
CreateBranchFailure(err) == ErrorfW("failed to create branch", err)
UpdateFileFailure_Reworded(err) == ErrorfW("failed to update the file", err)
UpdateFileFailure(err) == ErrorfW("failed to update file", err)
CreatePullRequestFailure_Reworded(err) == ErrorfW("failed to create pull request", err)
CreatePullRequestFailure(err) == ErrorfW("failed to create a pull request", err)

\* UpdateYAML, line 80: the err != nil that ends the invocation.
GetBranchHeadFails_Ignored(err) == FALSE
GetBranchHeadFails(err) == err # NilErr

\* createBranchIfNecessary, line 104: the err != nil that ends the invocation.
CreateBranchFails_Ignored(err) == FALSE
CreateBranchFails(err) == err # NilErr

\* UpdateYAML, line 88: the err != nil that ends the invocation.
UpdateFileFails_Ignored(err) == FALSE
UpdateFileFails(err) == err # NilErr

\* createBranchIfNecessary: the source branch is reused.
ReusesSourceBranch(in) == in.BranchGenerateName = ""

\* createPRIfNecessary: a pull request is opened.
OpensPullRequest_Always(in, branch) == TRUE
OpensPullRequest(in, branch) == in.Branch # branch

\* The scm.PullRequestInput createPRIfNecessary builds.
PullRequestInputOf_Swapped(in, branch) ==
    [Title |-> in.PullRequest.Title, Body |-> in.PullRequest.Body,
     Head |-> in.Branch, Base |-> branch]
PullRequestInputOf(in, branch) ==
    [Title |-> in.PullRequest.Title, Body |-> in.PullRequest.Body,
     Head |-> branch, Base |-> in.Branch]

\* The arguments of the UpdateFile call.
UpdateFileArgs_FreshSha(g) ==
    [repo |-> input[g].Repo, branch |-> newBranchName[g], path |-> input[g].Filename,
     message |-> input[g].CommitMessage, sha |-> BlobSha(remote[newBranchName[g]]),
     content |-> updated[g]]
UpdateFileArgs_Unpatched(g) ==
    [repo |-> input[g].Repo, branch |-> newBranchName[g], path |-> input[g].Filename,
     message |-> input[g].CommitMessage, sha |-> current[g].Sha,
     content |-> current[g].Data]
UpdateFileArgs(g) ==
    [repo |-> input[g].Repo, branch |-> newBranchName[g], path |-> input[g].Filename,
     message |-> input[g].CommitMessage, sha |-> current[g].Sha, content |-> updated[g]]

\* The arguments of the CreateBranch call.
CreateBranchArgs_FreshRef(g, name) ==
    [repo |-> input[g].Repo, name |-> name,
     sourceRef |-> HeadRef(remote[input[g].Branch])]
CreateBranchArgs(g, name) ==
    [repo |-> input[g].Repo, name |-> name, sourceRef |-> branchRef[g]]

\* A caller invokes UpdateYAML(ctx, in); when it invokes it again, it does so
\* with the same Input.
Call(g, in) ==
    /\ pc[g] \in {"idle", "returned"}
    /\ calls < MaxCalls
    /\ pc[g] = "returned" => in = input[g]
    /\ pc' = [pc EXCEPT ![g] = "GetFile"]
    /\ calls' = calls + 1
    /\ input' = [input EXCEPT ![g] = in]
    /\ canceled' = [canceled EXCEPT ![g] = FALSE]
    /\ log' = [log EXCEPT ![g] = <<>>]
    /\ ret' = [ret EXCEPT ![g] = NoReturn]
    /\ prev' = [prev EXCEPT ![g] =
                  IF pc[g] = "returned"
                  THEN [ran |-> TRUE, succeeded |-> ret[g].err = NilErr]
                  ELSE @]
    /\ peers' = [h \in Callers |-> IF h = g THEN {} ELSE peers[h] \ {g}]
    /\ UNCHANGED <<updaterVars, timeSeed, remoteVars, localVars, superseded>>

\* The caller's context is cancelled while UpdateYAML runs.
Cancel(g) ==
    /\ pc[g] \notin {"idle", "returned"}
    /\ ~canceled[g]
    /\ canceled' = [canceled EXCEPT ![g] = TRUE]
    /\ UNCHANGED <<updaterVars, timeSeed, remoteVars, pc, calls, input, localVars, log, ret,
                   prev, superseded, peers>>

\* Lines 69-78: GetFile, then SetBytes on what it returned.
GetFile(g, fault) ==
    /\ pc[g] = "GetFile"
    /\ LET in == input[g]
           err == ClientGetFile(g, fault)
           file == [Data |-> remote[in.Branch], Sha |-> BlobSha(remote[in.Branch])]
           patched == SetBytes(file.Data, in.Key, in.NewValue)
           got == Entry("GetFile",
                        [repo |-> in.Repo, branch |-> in.Branch, path |-> in.Filename],
                        err, IF err = NilErr THEN file ELSE NoFile)
           set == Entry("SetBytes",
                        [y |-> file.Data, path |-> in.Key, value |-> in.NewValue],
                        patched.err, patched.data)
       IN  IF err # NilErr
           THEN /\ log' = Logged(g, <<got>>)
                /\ Returns(g, NoPR, GetFileFailure(err))
           ELSE /\ log' = Logged(g, <<got, set>>)
                /\ IF patched.err # NilErr
                   THEN Returns(g, NoPR, SetBytesFailure(patched.err))
                   ELSE /\ current' = [current EXCEPT ![g] = file]
                        /\ updated' = [updated EXCEPT ![g] = patched.data]
                        /\ pc' = [pc EXCEPT ![g] = "GetBranchHead"]
                        /\ UNCHANGED <<ret, branchRef, newBranchName>>
    /\ superseded' = [superseded EXCEPT ![g] = FALSE]
    /\ peers' = IF ClientGetFile(g, fault) = NilErr THEN FetchedWith(g) ELSE peers
    /\ UNCHANGED <<updaterVars, timeSeed, remoteVars, calls, input, canceled, prev>>

\* Lines 79-83 and 95-99: GetBranchHead, then the branch decision.
GetBranchHead(g, fault) ==
    /\ pc[g] = "GetBranchHead"
    /\ LET in == input[g]
           err == ClientGetBranchHead(g, fault)
           ref == HeadRef(remote[in.Branch])
       IN  /\ log' = Logged(g, <<Entry("GetBranchHead",
                                       [repo |-> in.Repo, branch |-> in.Branch],
                                       err, IF err = NilErr THEN ref ELSE NoRef)>>)
           /\ IF GetBranchHeadFails(err)
              THEN /\ Returns(g, NoPR, GetBranchHeadFailure(err))
                   /\ superseded' = [superseded EXCEPT ![g] = FALSE]
              ELSE /\ branchRef' = [branchRef EXCEPT ![g] =
                                       IF err = NilErr THEN ref ELSE NoRef]
                   /\ IF ReusesSourceBranch(in)
                      THEN /\ newBranchName' = [newBranchName EXCEPT ![g] = in.Branch]
                           /\ pc' = [pc EXCEPT ![g] = "UpdateFile"]
                      ELSE /\ pc' = [pc EXCEPT ![g] = "CreateBranch"]
                           /\ UNCHANGED newBranchName
                   /\ UNCHANGED <<ret, current, updated, superseded>>
    /\ UNCHANGED <<updaterVars, timeSeed, remoteVars, calls, input, canceled, prev, peers>>

\* Lines 101-108 and 84-86: PrefixedName, then CreateBranch.
CreateBranch(g, name, fault) ==
    /\ pc[g] = "CreateBranch"
    /\ name \in PrefixedNames(nameGenerator, input[g].BranchGenerateName)
    /\ LET args == CreateBranchArgs(g, name)
           err == ClientCreateBranch(g, name, fault)
       IN  /\ log' = Logged(g, <<Entry("PrefixedName",
                                       [prefix |-> input[g].BranchGenerateName],
                                       NilErr, name),
                                 Entry("CreateBranch", args, err, name)>>)
           /\ remote' = IF err = NilErr
                        THEN [remote EXCEPT ![name] = args.sourceRef.commit]
                        ELSE remote
           /\ superseded' = [(IF err = NilErr THEN Supersedes(g, name) ELSE superseded)
                               EXCEPT ![g] = IF CreateBranchFails(err) THEN FALSE ELSE @]
           /\ IF CreateBranchFails(err)
              THEN Returns(g, NoPR, CreateBranchFailure(err))
              ELSE /\ newBranchName' = [newBranchName EXCEPT ![g] = name]
                   /\ pc' = [pc EXCEPT ![g] = "UpdateFile"]
                   /\ UNCHANGED <<ret, current, updated, branchRef>>
    /\ timeSeed' \in SeedAfterPrefixedName(g)
    /\ UNCHANGED <<updaterVars, pullRequests, calls, input, canceled, prev, peers>>

\* Lines 87-92 and 111-114: UpdateFile, then the pull request decision.
UpdateFile(g, fault) ==
    /\ pc[g] = "UpdateFile"
    /\ LET args == UpdateFileArgs(g)
           err == ClientUpdateFile(g, args.branch, args.sha, fault)
       IN  /\ log' = Logged(g, <<Entry("UpdateFile", args, err, args.branch)>>)
           /\ remote' = IF err = NilErr
                        THEN [remote EXCEPT ![args.branch] = args.content]
                        ELSE remote
           /\ superseded' = [(IF err = NilErr THEN Supersedes(g, args.branch) ELSE superseded)
                               EXCEPT ![g] = FALSE]
           /\ IF UpdateFileFails(err)
              THEN Returns(g, NoPR, UpdateFileFailure(err))
              ELSE IF OpensPullRequest(input[g], newBranchName[g])
                   THEN /\ pc' = [pc EXCEPT ![g] = "CreatePullRequest"]
                        /\ UNCHANGED <<ret, localVars>>
                   ELSE Returns(g, NoPR, NilErr)
    /\ UNCHANGED <<updaterVars, timeSeed, pullRequests, calls, input, canceled, prev, peers>>

\* Lines 115-125: CreatePullRequest.
CreatePullRequest(g, fault) ==
    /\ pc[g] = "CreatePullRequest"
    /\ LET args == PullRequestInputOf(input[g], newBranchName[g])
           err == ClientCreatePullRequest(g, fault)
           pr == [Number |-> Len(pullRequests) + 1, Title |-> args.Title,
                  Body |-> args.Body, Head |-> args.Head, Base |-> args.Base]
       IN  /\ log' = Logged(g, <<Entry("CreatePullRequest",
                                       [repo |-> input[g].Repo, input |-> args],
                                       err, IF err = NilErr THEN pr ELSE NoPR)>>)
           /\ IF err # NilErr
              THEN /\ Returns(g, NoPR, CreatePullRequestFailure(err))
                   /\ UNCHANGED pullRequests
              ELSE /\ pullRequests' = Append(pullRequests, pr)
                   /\ Returns(g, pr, NilErr)
    /\ UNCHANGED <<updaterVars, timeSeed, remote, calls, input, canceled, prev, superseded, peers>>

\* Another party commits the file on a source branch.
ExternalWrite(b, doc) ==
    /\ remote[b] # NoBranch
    /\ doc # remote[b]
    /\ remote' = [remote EXCEPT ![b] = doc]
    /\ superseded' = Supersedes("", b)
    /\ UNCHANGED <<updaterVars, timeSeed, pullRequests, pc, calls, input, canceled,
                   localVars, log, ret, prev, peers>>

Next ==
    \/ \E g \in Callers, in \in Inputs : Call(g, in)
    \/ \E g \in Callers, fault \in BOOLEAN : GetFile(g, fault)
    \/ \E g \in Callers, fault \in BOOLEAN : GetBranchHead(g, fault)
    \/ \E g \in Callers, name \in BranchNames, fault \in BOOLEAN : CreateBranch(g, name, fault)
    \/ \E g \in Callers, fault \in BOOLEAN : UpdateFile(g, fault)
    \/ \E g \in Callers, fault \in BOOLEAN : CreatePullRequest(g, fault)
    \/ \E b \in SourceBranches, doc \in ExternalDocs : ExternalWrite(b, doc)

\* The callers never cancel their contexts.
Spec == Init /\ [][Next]_vars

NextCancel ==
    \/ Next
    \/ \E g \in Callers : Cancel(g)

\* The callers may cancel their contexts.
SpecCancel == Init /\ [][NextCancel]_vars

\* =================================================================
\* Properties
\* =================================================================
Returned(g) == pc[g] = "returned"
Running(g) == pc[g] \notin {"idle", "returned"}

\* The operations of the collaborator calls of g's invocation, in order.
Ops(g) == [i \in 1..Len(log[g]) |-> log[g][i].op]

\* The positions of the calls of op in g's log; those that succeeded.
CallsTo(g, op) == {i \in DOMAIN log[g] : log[g][i].op = op}
Succeeded(g, op) == {i \in CallsTo(g, op) : log[g][i].err = NilErr}
FailedAt(g, op) == {i \in CallsTo(g, op) : log[g][i].err # NilErr}

\* Every collaborator call g's invocation made succeeded.
AllSucceeded(g) == \A i \in DOMAIN log[g] : log[g][i].err = NilErr

Range(seq) == {seq[i] : i \in DOMAIN seq}

\* The name the generator returned in g's invocation is not the source branch.
DistinctName(g) ==
    \A i \in CallsTo(g, "PrefixedName") : log[g][i].result # input[g].Branch

\* C1: with an empty BranchGenerateName, when every call succeeds, UpdateYAML
\* calls GetFile, SetBytes, GetBranchHead and UpdateFile once each and nothing
\* else (no PrefixedName, CreateBranch or CreatePullRequest), the UpdateFile
\* targets Input.Branch, and it returns (nil, nil).
C1_ReuseCommitsToSourceBranch ==
    \A g \in Callers :
        (Returned(g) /\ input[g].BranchGenerateName = "" /\ AllSucceeded(g)) =>
            /\ Ops(g) = <<"GetFile", "SetBytes", "GetBranchHead", "UpdateFile">>
            /\ log[g][4].args.branch = input[g].Branch
            /\ ret[g] = [pr |-> NoPR, err |-> NilErr]

C1_Witness ==
    \E g \in Callers :
        /\ Returned(g) /\ input[g].BranchGenerateName = "" /\ AllSucceeded(g)
        /\ CallsTo(g, "UpdateFile") # {}

\* What C2 says a successful invocation with a BranchGenerateName did.
CreatedBranchAndPullRequest(g) ==
    /\ Ops(g) = <<"GetFile", "SetBytes", "GetBranchHead", "PrefixedName",
                  "CreateBranch", "UpdateFile", "CreatePullRequest">>
    /\ LET in == input[g]
           name == log[g][4].result
       IN  /\ log[g][4].args.prefix = in.BranchGenerateName
           /\ log[g][5].args = [repo |-> in.Repo, name |-> name,
                                sourceRef |-> log[g][3].result]
           /\ remote[name] # NoBranch
           /\ log[g][6].args.branch = name
           /\ log[g][6].args.content = log[g][2].result
           /\ log[g][7].args.input = [Title |-> in.PullRequest.Title,
                                      Body |-> in.PullRequest.Body,
                                      Head |-> name, Base |-> in.Branch]
           /\ ret[g].err = NilErr
           /\ ret[g].pr # NoPR
           /\ ret[g].pr = log[g][7].result
           /\ ret[g].pr \in Range(pullRequests)

\* C2 as stated: with a BranchGenerateName, for every name the generator
\* returns, when every call succeeds, UpdateYAML creates one branch of that
\* name from the head GetBranchHead returned, commits the patched file there,
\* creates one pull request (Head the new branch, Base Input.Branch, Title and
\* Body of the Input) and returns it with a nil error.
C2_Original ==
    \A g \in Callers :
        (Returned(g) /\ input[g].BranchGenerateName # "" /\ AllSucceeded(g)) =>
            CreatedBranchAndPullRequest(g)

\* C2, amended: the above holds for every generated name other than
\* Input.Branch; when the generated name is Input.Branch, the branch is
\* created and committed to, no pull request is created and UpdateYAML
\* returns (nil, nil).
C2_CreateModeOpensPullRequest ==
    \A g \in Callers :
        (Returned(g) /\ input[g].BranchGenerateName # "" /\ AllSucceeded(g)) =>
            IF DistinctName(g)
            THEN CreatedBranchAndPullRequest(g)
            ELSE /\ Ops(g) = <<"GetFile", "SetBytes", "GetBranchHead", "PrefixedName",
                               "CreateBranch", "UpdateFile">>
                 /\ log[g][5].args.name = input[g].Branch
                 /\ log[g][6].args.branch = input[g].Branch
                 /\ ret[g] = [pr |-> NoPR, err |-> NilErr]

C2_Witness ==
    \E g \in Callers :
        /\ Returned(g) /\ input[g].BranchGenerateName # "" /\ AllSucceeded(g)
        /\ DistinctName(g)
        /\ Succeeded(g, "CreatePullRequest") # {}

\* C3 as stated: the side effects of an invocation are a prefix of <<branch
\* created, file committed, pull request created>>: a file is committed only
\* after a CreateBranch of this invocation succeeded, a pull request is
\* created only after that and a successful UpdateFile.
C3_Original ==
    \A g \in Callers :
        /\ \A i \in Succeeded(g, "UpdateFile") :
              \E j \in Succeeded(g, "CreateBranch") : j < i
        /\ \A i \in Succeeded(g, "CreatePullRequest") :
              \E j \in Succeeded(g, "CreateBranch"), k \in Succeeded(g, "UpdateFile") :
                  j < k /\ k < i

\* C3, amended: a file is committed only after a CreateBranch of this
\* invocation succeeded or, when BranchGenerateName is empty, without any
\* CreateBranch call; a pull request is created only after a successful
\* CreateBranch and a successful UpdateFile of this invocation, in that order.
C3_SideEffectsInOrder ==
    \A g \in Callers :
        /\ \A i \in CallsTo(g, "UpdateFile") :
              \/ \E j \in Succeeded(g, "CreateBranch") : j < i
              \/ input[g].BranchGenerateName = "" /\ CallsTo(g, "CreateBranch") = {}
        /\ \A i \in CallsTo(g, "CreatePullRequest") :
              \E j \in Succeeded(g, "CreateBranch"), k \in Succeeded(g, "UpdateFile") :
                  j < k /\ k < i

C3_Witness ==
    \E g, h \in Callers :
        /\ Succeeded(g, "CreatePullRequest") # {}
        /\ input[h].BranchGenerateName = "" /\ Succeeded(h, "UpdateFile") # {}

\* g's invocation returns in this step.
ReturnsNow(g) == pc[g] # "returned" /\ pc'[g] = "returned"

\* This step leaves the repository as it was.
RemoteUnchanged == remote' = remote /\ pullRequests' = pullRequests

\* C4: when GetFile fails, UpdateYAML returns (nil, that very error), GetFile
\* is the only collaborator call of the invocation, and the repository is as
\* it was: no branch, commit or pull request.
C4_GetFileFailure ==
    [][\A g \in Callers :
        (ReturnsNow(g) /\ FailedAt(g, "GetFile")' # {}) =>
            /\ Len(log'[g]) = 1
            /\ ret'[g] = [pr |-> NoPR, err |-> log'[g][1].err]
            /\ RemoteUnchanged]_vars

C4_Witness ==
    \E g \in Callers : Returned(g) /\ FailedAt(g, "GetFile") # {}

\* C5: when CreateBranch fails, UpdateYAML returns nil and an error whose
\* message is "failed to create branch: " and the message of the underlying
\* error, calls neither UpdateFile nor CreatePullRequest, and leaves the
\* repository without a new branch, commit or pull request.
C5_CreateBranchFailure ==
    [][\A g \in Callers :
        (ReturnsNow(g) /\ FailedAt(g, "CreateBranch")' # {}) =>
            /\ ret'[g].pr = NoPR
            /\ \A i \in FailedAt(g, "CreateBranch")' :
                   ret'[g].err.msg = "failed to create branch: " \o log'[g][i].err.msg
            /\ CallsTo(g, "UpdateFile")' = {}
            /\ CallsTo(g, "CreatePullRequest")' = {}
            /\ RemoteUnchanged]_vars

C5_Witness ==
    \E g \in Callers :
        /\ Returned(g) /\ FailedAt(g, "CreateBranch") # {}
        /\ ret[g].err.msg = "failed to create branch: can't create branch"

\* C6: when UpdateFile fails after this invocation created a branch, the
\* branch still exists at the return, nothing is deleted or rolled back and
\* the file on the branch is as it was, CreatePullRequest is not called, and
\* UpdateYAML returns nil and an error whose message is "failed to update
\* file: " and the message of the underlying error.
C6_UpdateFileFailure ==
    [][\A g \in Callers :
        (ReturnsNow(g) /\ FailedAt(g, "UpdateFile")' # {}
                       /\ Succeeded(g, "CreateBranch")' # {}) =>
            /\ \A j \in Succeeded(g, "CreateBranch")' :
                   remote'[log'[g][j].args.name] # NoBranch
            /\ RemoteUnchanged
            /\ log'[g][Len(log'[g])].op = "UpdateFile"
            /\ CallsTo(g, "CreatePullRequest")' = {}
            /\ ret'[g].pr = NoPR
            /\ \A i \in FailedAt(g, "UpdateFile")' :
                   ret'[g].err.msg = "failed to update file: " \o log'[g][i].err.msg]_vars

C6_Witness ==
    \E g \in Callers :
        /\ Returned(g) /\ FailedAt(g, "UpdateFile") # {}
        /\ Succeeded(g, "CreateBranch") # {}
        /\ ret[g].err.msg = "failed to update file: can't update file"

\* C7: when CreatePullRequest fails after the commit succeeded, the branch
\* exists at the return and nothing is rolled back (with a service that
\* refuses to create a branch twice, the file on the branch is the one this
\* invocation committed), no pull request was created, and UpdateYAML returns
\* nil and an error whose message is "failed to create a pull request: " and
\* the message of the underlying error.
C7_CreatePullRequestFailure ==
    [][\A g \in Callers :
        (ReturnsNow(g) /\ FailedAt(g, "CreatePullRequest")' # {}) =>
            /\ Succeeded(g, "CreateBranch")' # {}
            /\ Succeeded(g, "UpdateFile")' # {}
            /\ \A j \in Succeeded(g, "UpdateFile")' :
                   /\ remote'[log'[g][j].args.branch] # NoBranch
                   /\ rejectsExisting =>
                          remote'[log'[g][j].args.branch] = log'[g][j].args.content
            /\ RemoteUnchanged
            /\ log'[g][Len(log'[g])].op = "CreatePullRequest"
            /\ ret'[g].pr = NoPR
            /\ \A i \in FailedAt(g, "CreatePullRequest")' :
                   ret'[g].err.msg =
                       "failed to create a pull request: " \o log'[g][i].err.msg]_vars

C7_Witness ==
    \E g \in Callers :
        /\ Returned(g) /\ FailedAt(g, "CreatePullRequest") # {}
        /\ ret[g].err.msg = "failed to create a pull request: can't create pull-request"

\* C8 as stated: once the context of an invocation is cancelled, the Updater
\* issues no further collaborator call in that invocation.
C8_NoCallAfterCancel ==
    [][\A g \in Callers : (canceled[g] /\ Running(g)) => log'[g] = log[g]]_vars

\* g, with an empty BranchGenerateName, is at its UpdateFile call and makes it
\* in this step.
ReuseUpdateNow(g) ==
    /\ input[g].BranchGenerateName = ""
    /\ pc[g] = "UpdateFile"
    /\ pc'[g] # "UpdateFile"

\* What a call that loses the race does: it returns the wrapped error and
\* neither fetches again nor calls UpdateFile again.
LosesWithoutRetry(g) ==
    LET e == log'[g][Len(log'[g])] IN
    e.err # NilErr =>
        /\ ReturnsNow(g)
        /\ ret'[g].pr = NoPR
        /\ ret'[g].err.msg = "failed to update file: " \o e.err.msg
        /\ Cardinality(CallsTo(g, "GetFile")') = 1
        /\ Cardinality(CallsTo(g, "UpdateFile")') = 1
        /\ RemoteUnchanged

\* C9 as stated: with a service that refuses an UpdateFile whose sha is not
\* the current one of the file, and an empty BranchGenerateName, a commit
\* that succeeds replaces the file its invocation fetched, of the calls that
\* fetched one version of the file at most one commits, and a call that loses
\* returns "failed to update file" without retrying.
C9_Original ==
    [][\A g \in Callers :
        ReuseUpdateNow(g) =>
            LET e == log'[g][Len(log'[g])] IN
            /\ e.op = "UpdateFile"
            /\ e.err = NilErr =>
                   /\ remote[input[g].Branch] = log[g][1].result.Data
                   /\ \A h \in peers[g] :
                          input[h].BranchGenerateName = "" => Succeeded(h, "UpdateFile") = {}
            /\ LosesWithoutRetry(g)]_vars

\* C9, amended: a commit that succeeds replaces a file whose content, and so
\* whose sha, is what its invocation fetched: no different content is
\* overwritten unseen, yet two calls that fetched one version both commit
\* when the content at the second commit is again the fetched one (the first
\* commit rewrote the same content, or the content was restored).  An
\* UpdateFile against a file whose content is no longer the fetched one is
\* refused, and that call returns "failed to update file" without fetching
\* or updating again.
C9_OptimisticCommit ==
    [][\A g \in Callers :
        ReuseUpdateNow(g) =>
            LET e == log'[g][Len(log'[g])]
                fetched == log[g][1].result
                b == input[g].Branch
            IN  /\ e.op = "UpdateFile"
                /\ e.args.branch = b
                /\ e.args.sha = fetched.Sha
                /\ e.err = NilErr => /\ remote[b] = fetched.Data
                                     /\ remote'[b] = e.args.content
                /\ remote[b] # fetched.Data => e.err # NilErr
                /\ LosesWithoutRetry(g)]_vars

C9_Witness ==
    \E g, h \in Callers :
        /\ g # h
        /\ Returned(g) /\ Returned(h)
        /\ input[g].BranchGenerateName = "" /\ input[h] = input[g]
        /\ log[g][1].result = log[h][1].result
        /\ Succeeded(g, "UpdateFile") # {}
        /\ \E i \in FailedAt(h, "UpdateFile") : log[h][i].err = StaleShaErr
        /\ ret[h].err.msg = "failed to update file: sha does not match"

\* g runs UpdateYAML again, with the same Input, after an invocation that
\* succeeded, with a BranchGenerateName, a generator that returns the same
\* name for the same prefix and a service that refuses to create a branch
\* that exists.
Rerun(g) ==
    /\ prev[g].ran /\ prev[g].succeeded
    /\ input[g].BranchGenerateName # ""
    /\ nameGenerator.kind = "stub"
    /\ rejectsExisting

\* C10: such a second invocation calls neither UpdateFile nor
\* CreatePullRequest and changes nothing in the repository; its CreateBranch
\* call fails and it returns "failed to create branch"; when its GetFile,
\* SetBytes and GetBranchHead succeed it does reach that CreateBranch call.
C10_RerunFailsAtCreateBranch ==
    [][\A g \in Callers :
        (Rerun(g) /\ Running(g) /\ log'[g] # log[g]) =>
            /\ RemoteUnchanged
            /\ CallsTo(g, "UpdateFile")' = {}
            /\ CallsTo(g, "CreatePullRequest")' = {}
            /\ \A i \in CallsTo(g, "CreateBranch")' :
                   /\ log'[g][i].err # NilErr
                   /\ ReturnsNow(g)
                   /\ ret'[g].pr = NoPR
                   /\ ret'[g].err.msg = "failed to create branch: " \o log'[g][i].err.msg
            /\ ReturnsNow(g) =>
                   /\ ret'[g].err # NilErr
                   /\ Succeeded(g, "GetBranchHead")' # {} =>
                          FailedAt(g, "CreateBranch")' # {}]_vars

C10_Witness ==
    \E g \in Callers :
        /\ Rerun(g) /\ Returned(g)
        /\ \E i \in FailedAt(g, "CreateBranch") : log[g][i].err = BranchExistsErr
        /\ ret[g].err.msg = "failed to create branch: reference already exists"

\* The collaborator operations of UpdateYAML.
CollaboratorOps ==
    {"GetFile", "SetBytes", "GetBranchHead", "PrefixedName", "CreateBranch",
     "UpdateFile", "CreatePullRequest"}

\* C11: an invocation calls each collaborator operation at most once; a call
\* that fails is the last one of the invocation, which has then returned nil
\* and an error.
C11_EachCallAtMostOnce ==
    \A g \in Callers :
        /\ \A op \in CollaboratorOps : Cardinality(CallsTo(g, op)) <= 1
        /\ \A i \in DOMAIN log[g] :
               log[g][i].err # NilErr =>
                   /\ i = Len(log[g])
                   /\ Returned(g)
                   /\ ret[g].pr = NoPR
                   /\ ret[g].err # NilErr

C11_Witness ==
    \E g \in Callers :
        /\ Returned(g)
        /\ Ops(g) = <<"GetFile", "SetBytes", "GetBranchHead">>
        /\ FailedAt(g, "GetBranchHead") # {}
        /\ ret[g].err # NilErr

\* C12: GetBranchHead is called after GetFile has returned, and every
\* CreateBranch call comes after a GetBranchHead call of the same invocation
\* that succeeded and passes, as its source ref, what that call returned.
C12_BranchHeadCapturedBetween ==
    \A g \in Callers :
        /\ \A j \in CallsTo(g, "GetBranchHead") :
               \E k \in Succeeded(g, "GetFile") : k < j
        /\ \A i \in CallsTo(g, "CreateBranch") :
               \E j \in Succeeded(g, "GetBranchHead") :
                   /\ j < i
                   /\ log[g][i].args.sourceRef = log[g][j].result

\* A branch created from the captured head after the source branch has moved.
C12_Witness ==
    \E g \in Callers :
        \E i \in Succeeded(g, "CreateBranch") :
            /\ log[g][i].args.sourceRef = log[g][3].result
            /\ log[g][i].args.sourceRef # HeadRef(remote[input[g].Branch])
            /\ log[g][i].args.name # input[g].Branch

\* g, with a BranchGenerateName, has created a branch of a name of its own
\* with a service that creates no branch twice (so that nobody else writes to
\* that branch), is at its UpdateFile call and makes it in this step.
CreateUpdateNow(g) ==
    /\ input[g].BranchGenerateName # ""
    /\ rejectsExisting
    /\ pc[g] = "UpdateFile"
    /\ newBranchName[g] # input[g].Branch
    /\ pc'[g] # "UpdateFile"

\* C13 as stated: with a BranchGenerateName, the sha UpdateYAML passes to
\* UpdateFile is the current sha of the file on the branch it has just
\* created, so that this commit is never refused as stale.
C13_TokenCurrentOnNewBranch ==
    [][\A g \in Callers :
        CreateUpdateNow(g) =>
            LET e == log'[g][Len(log'[g])] IN
            /\ e.op = "UpdateFile"
            /\ e.args.sha = BlobSha(remote[e.args.branch])
            /\ e.err # StaleShaErr]_vars

\* C14: every UpdateFile call carries the repo and the filename of the
\* Input, the target branch (Input.Branch when BranchGenerateName is empty,
\* else the name the generator returned), Input.CommitMessage, the sha this
\* invocation's GetFile call returned, and the content that call returned
\* with Input.Key set to Input.NewValue.
C14_UpdateFileArguments ==
    \A g \in Callers :
        \A i \in CallsTo(g, "UpdateFile") :
            LET a == log[g][i].args
                in == input[g]
                fetched == log[g][1]
                patched == SetBytes(fetched.result.Data, in.Key, in.NewValue)
            IN  /\ fetched.op = "GetFile" /\ fetched.err = NilErr
                /\ CallsTo(g, "GetFile") = {1}
                /\ a.repo = in.Repo
                /\ a.path = in.Filename
                /\ a.message = in.CommitMessage
                /\ a.branch = IF in.BranchGenerateName = "" THEN in.Branch
                              ELSE log[g][4].result
                /\ in.BranchGenerateName # "" => log[g][4].op = "PrefixedName"
                /\ a.sha = fetched.result.Sha
                /\ patched.err = NilErr
                /\ a.content = patched.data

\* An UpdateFile call made, with the sha fetched, after the file has changed.
C14_Witness ==
    \E g \in Callers :
        \E i \in CallsTo(g, "UpdateFile") :
            /\ input[g].BranchGenerateName # ""
            /\ log[g][i].args.branch # input[g].Branch
            /\ log[g][i].args.sha = log[g][1].result.Sha
            /\ log[g][i].args.content # log[g][1].result.Data
            /\ log[g][i].err = StaleShaErr

\* C15: when SetBytes fails on the content fetched, UpdateYAML returns nil
\* and that very error, GetFile is the only call to the hosting client in the
\* invocation, and the repository is as it was.
C15_SetBytesFailure ==
    [][\A g \in Callers :
        (ReturnsNow(g) /\ FailedAt(g, "SetBytes")' # {}) =>
            /\ Ops(g)' = <<"GetFile", "SetBytes">>
            /\ log'[g][2].args.y = log'[g][1].result.Data
            /\ ret'[g] = [pr |-> NoPR, err |-> log'[g][2].err]
            /\ RemoteUnchanged]_vars

\* Both failures of SetBytes: a document that does not parse, an invalid path.
C15_Witness ==
    \E g, h \in Callers :
        /\ Returned(g) /\ FailedAt(g, "SetBytes") # {} /\ ret[g].err = YAMLErr
        /\ Returned(h) /\ FailedAt(h, "SetBytes") # {} /\ ret[h].err = PathErr

\* C16: when GetBranchHead fails, with or without a BranchGenerateName,
\* UpdateYAML returns nil and an error whose message is "failed to get branch
\* head: " and the message of the underlying error, and makes no
\* PrefixedName, CreateBranch, UpdateFile or CreatePullRequest call.
C16_GetBranchHeadFailure ==
    [][\A g \in Callers :
        (ReturnsNow(g) /\ FailedAt(g, "GetBranchHead")' # {}) =>
            /\ Ops(g)' = <<"GetFile", "SetBytes", "GetBranchHead">>
            /\ ret'[g].pr = NoPR
            /\ ret'[g].err.msg = "failed to get branch head: " \o log'[g][3].err.msg
            /\ RemoteUnchanged]_vars

C16_Witness ==
    \E g, h \in Callers :
        /\ input[g].BranchGenerateName = "" /\ input[h].BranchGenerateName # ""
        /\ \A c \in {g, h} :
               /\ Returned(c) /\ FailedAt(c, "GetBranchHead") # {}
               /\ ret[c].err.msg = "failed to get branch head: no such ref"

\* The calls whose failure UpdateYAML reports under a prefix of its own.
WrappedOps == {"GetBranchHead", "CreateBranch", "UpdateFile", "CreatePullRequest"}

\* C17 as stated: when GetBranchHead, CreateBranch, UpdateFile or
\* CreatePullRequest fails, errors.Unwrap of the error UpdateYAML returns is
\* the error the hosting client returned.
C17_WrappedErrorsCarryCause ==
    \A g \in Callers :
        Returned(g) =>
            \A op \in WrappedOps :
                \A i \in FailedAt(g, op) : Unwrap(ret[g].err) = log[g][i].err

\* C18 as stated: a step of an invocation writes neither the fields of the
\* Updater nor an Input nor the locals of another invocation, and, while
\* another invocation is running, no state outside the hosting client that
\* the other one reads, the default name generator included.
C18_NoSharedMutableState ==
    [][\A g \in Callers :
        (Running(g) /\ log'[g] # log[g]) =>
            /\ nameGenerator' = nameGenerator
            /\ input' = input
            /\ \A h \in Callers \ {g} :
                   /\ current'[h] = current[h] /\ updated'[h] = updated[h]
                   /\ branchRef'[h] = branchRef[h]
                   /\ newBranchName'[h] = newBranchName[h]
                   /\ pc'[h] = pc[h] /\ ret'[h] = ret[h]
            /\ (\E h \in Callers \ {g} : pc[h] = "CreateBranch") =>
                   timeSeed' = timeSeed]_vars

\* g runs UpdateYAML again, with the same Input and an empty
\* BranchGenerateName, after an invocation that succeeded, has fetched a file
\* that holds Input.NewValue under Input.Key, and commits in this step.
RerunCommitsNow(g) ==
    /\ prev[g].ran /\ prev[g].succeeded
    /\ ReuseUpdateNow(g)
    /\ current[g].Data.parses
    /\ current[g].Data.value = input[g].NewValue
    /\ log'[g][Len(log'[g])].err = NilErr

\* Setting a key twice is setting it once.
SetBytesIdempotent(path, value) ==
    \A y \in Docs :
        LET once == SetBytes(y, path, value) IN
        once.err = NilErr => SetBytes(once.data, path, value) = once

\* Such a second run makes no PrefixedName, CreateBranch or CreatePullRequest
\* call and returns (nil, nil).
RerunOpensNothing(g) ==
    /\ Ops(g)' = <<"GetFile", "SetBytes", "GetBranchHead", "UpdateFile">>
    /\ ReturnsNow(g)
    /\ ret'[g] = [pr |-> NoPR, err |-> NilErr]
    /\ pullRequests' = pullRequests
    /\ \A b \in BranchNames : remote[b] = NoBranch => remote'[b] = NoBranch

\* C19 as stated: such a second run commits a document equal to the one on
\* the branch, SetBytes being idempotent, and creates no branch and no pull
\* request.
C19_Original ==
    [][\A g \in Callers :
        RerunCommitsNow(g) =>
            /\ log'[g][4].args.content = remote[input[g].Branch]
            /\ remote' = remote
            /\ SetBytesIdempotent(input[g].Key, input[g].NewValue)
            /\ RerunOpensNothing(g)]_vars

\* C19, amended: such a second run commits SetBytes of the document on the
\* branch: it holds the same value and is unchanged by a further SetBytes
\* (SetBytes is idempotent); it is equal to the document on the branch when
\* that one is in the form SetBytes writes, as the one the first run
\* committed is, and only then; the run creates no branch and no pull
\* request.
C19_RerunRewritesStably ==
    [][\A g \in Callers :
        RerunCommitsNow(g) =>
            LET in == input[g]
                on == remote[in.Branch]
                content == log'[g][4].args.content
            IN  /\ on = current[g].Data
                /\ content = SetBytes(on, in.Key, in.NewValue).data
                /\ content.value = on.value
                /\ SetBytes(content, in.Key, in.NewValue).data = content
                /\ SetBytesIdempotent(in.Key, in.NewValue)
                /\ content = on <=> on.canonical
                /\ remote'[in.Branch] = content
                /\ RerunOpensNothing(g)]_vars

\* A second run that has committed, over the document the first run
\* committed, an equal one.
C19_Witness ==
    \E g \in Callers :
        /\ prev[g].ran /\ prev[g].succeeded
        /\ Returned(g) /\ input[g].BranchGenerateName = ""
        /\ Succeeded(g, "UpdateFile") # {}
        /\ log[g][1].result.Data.value = input[g].NewValue
        /\ log[g][4].args.content = log[g][1].result.Data
        /\ remote[input[g].Branch] = log[g][4].args.content

====
